---------------------------- MODULE Spec2Model ----------------------------
(***************************************************************************)
(* A model of the chart-image analyzer of trading-analyzer:                *)
(*   src/chart_analyzer.py  class ChartAnalyzer and the module-level       *)
(*                          find_peaks fallback                            *)
(*   src/app.py             chart_analysis_page, the caller                *)
(*                                                                         *)
(* Python dicts are functions from key strings, Python lists are           *)
(* sequences, a 2-D numpy array is a function row -> column -> value with  *)
(* 0-based indices.  Floating point values are kept exact as integer       *)
(* fractions (a least-squares slope is num/den).  The results of the       *)
(* OpenCV calls whose algorithms are outside the repository (Canny,        *)
(* morphologyEx, findContours, approxPolyDP) are carried by the uploaded   *)
(* image: they are a function of its pixels.                               *)
(***************************************************************************)
EXTENDS Integers, Sequences, FiniteSets, TLC

VARIABLES
    pc,                 \* position of the page / the analysis call
    uploaded_file,      \* the file handed to analyze_uploaded_chart
    scipy_available,    \* environment: can scipy.signal be imported
    lstsq_raises,       \* environment: does this build's lstsq raise on NaN input
    self_patterns,      \* ChartAnalyzer.patterns, set in __init__
    gray,               \* local of perform_chart_analysis
    edges,              \* local of perform_chart_analysis
    results,            \* local of perform_chart_analysis, the dict it returns
    signal_score,       \* local of generate_trading_signal
    reasoning,          \* local of generate_trading_signal
    st_out,             \* what the Streamlit page has shown in this run
    uncaught,           \* the exception that left chart_analysis_page, or "none"
    returned,           \* <<value>> returned by analyze_uploaded_chart, or <<>>
    memo                \* history: <<[file, outcome]>> of the first finished call

vars == <<pc, uploaded_file, scipy_available, lstsq_raises, self_patterns, gray,
          edges, results, signal_score, reasoning, st_out, uncaught, returned, memo>>

(***************************************************************************)
(* Bounds of the model.                                                    *)
(***************************************************************************)
ImgHeight == 20        \* rows of every modelled image
ImgWidth == 12         \* columns of every modelled image
MaxPatternLen == 3     \* longest pattern list handed to the scorer on its own
MaxLevelLen == 4       \* longest level list handed to the scorer on its own
ScoreBound == 70       \* scores -ScoreBound..ScoreBound handed to the label mapping
MaxContours == 5       \* longest contour list of an edge map of a call on its own

(***************************************************************************)
(* Python helpers.                                                         *)
(***************************************************************************)
EmptyDict == [k \in {} |-> ""]

Range(s) == {s[i] : i \in DOMAIN s}

Min(a, b) == IF a <= b THEN a ELSE b

Abs(n) == IF n < 0 THEN -n ELSE n

\* Python's `needle in hay` on strings
In(needle, hay) ==
    \E i \in 1..(Len(hay) - Len(needle) + 1) :
        SubSeq(hay, i, i + Len(needle) - 1) = needle

\* Python's s[:n] on lists
Take(s, n) == SubSeq(s, 1, Min(n, Len(s)))

\* Python's sep.join(parts)
RECURSIVE Join(_, _)
Join(parts, sep) ==
    IF Len(parts) = 0 THEN ""
    ELSE IF Len(parts) = 1 THEN parts[1]
    ELSE parts[1] \o sep \o Join(Tail(parts), sep)

\* dict.update replaced by a merge that keeps the keys already set
DictKeepOld(d, other) ==
    [k \in DOMAIN d \cup DOMAIN other |-> IF k \in DOMAIN d THEN d[k] ELSE other[k]]

\* Python's dict.update
DictUpdate(d, other) ==
    [k \in DOMAIN d \cup DOMAIN other |-> IF k \in DOMAIN other THEN other[k] ELSE d[k]]

RECURSIVE SumSeq(_)
SumSeq(s) == IF Len(s) = 0 THEN 0 ELSE s[1] + SumSeq(Tail(s))

RECURSIVE Dot(_, _)
Dot(s, t) == IF Len(s) = 0 THEN 0 ELSE s[1] * t[1] + Dot(Tail(s), Tail(t))


(***************************************************************************)
(* Uploaded files.  A file is decodable or not; a decodable one has a      *)
(* colour mode (PIL's Image.mode) and pixels.  The pixels are a chart      *)
(* drawing: a bright price line inside the rightmost columns, horizontal   *)
(* grid lines and a background.  `cv` is what OpenCV's edge and contour    *)
(* routines yield on these pixels: the number of edge pixels that survive  *)
(* the 40x1 opening and, per external contour, its number of points and    *)
(* the number of vertices of its polygon approximation.                    *)
(***************************************************************************)
NoLine == [cols |-> {}, rise2 |-> 0, thick |-> 0]

NoCv == [horizontal_strength |-> 0, contours |-> <<>>]

NoFile == [decodable |-> FALSE, mode |-> "none", background |-> 0,
           line |-> NoLine, grid |-> 0, cv |-> NoCv]

\* first column of gray_image[:, int(width*0.7):]
RegionStart(width) == (width * 7) \div 10

\* the row of the price line's upper edge in region column lc
LineTop(line, lc) ==
    (IF line.rise2 < 0 THEN 8 ELSE 0) + ((line.rise2 * lc) \div 2)

\* the luminance of pixel (r, c)
Luminance(file, r, c) ==
    LET lc == c - RegionStart(ImgWidth)
    IN  IF /\ lc \in file.line.cols
           /\ r >= LineTop(file.line, lc)
           /\ r < LineTop(file.line, lc) + file.line.thick
        THEN 255
        ELSE IF r % 2 = 1 /\ r < 2 * file.grid THEN 128
        ELSE file.background

\* number of channels of np.array(image); 0 stands for a 2-D array
Channels(mode) ==
    CASE mode = "RGB" -> 3
      [] mode = "RGBA" -> 4
      [] mode = "CMYK" -> 4
      [] OTHER -> 0

\* cv2.cvtColor(img_array, cv2.COLOR_RGB2GRAY): OpenCV accepts 3 or 4 channels
\* and raises cv2.error otherwise
cvtColor(file) ==
    IF Channels(file.mode) \in {3, 4}
    THEN [raised |-> FALSE,
          value |-> [r \in 0..(ImgHeight - 1) |->
                        [c \in 0..(ImgWidth - 1) |-> Luminance(file, r, c)]]]
    ELSE [raised |-> TRUE, value |-> "cv2.error"]

\* cv2.Canny(gray, 50, 150): the edge map, kept as what the pattern stage
\* reads from it
Canny(file) == file.cv

NoGray == [r \in {} |-> 0]

Height(gray_image) == Cardinality(DOMAIN gray_image)

Width(gray_image) == Cardinality(DOMAIN gray_image[0])

(***************************************************************************)
(* analyze_trend_direction                                                 *)
(***************************************************************************)
\* gray_image[:, int(width*0.7):] flattened in row-major order: element i is
\* the pixel in row i \div w and region column i % w, w the region's width
RegionWidth(gray_image) == Width(gray_image) - RegionStart(Width(gray_image))

recent_region(gray_image) ==
    LET start == RegionStart(Width(gray_image))
        w == RegionWidth(gray_image)
        n == Height(gray_image) * w
    IN  [i \in 0..(n - 1) |-> gray_image[i \div w][start + (i % w)]]

\* the k-th smallest value (k from 0) of the region
KthValue(region, k) ==
    CHOOSE v \in {region[i] : i \in DOMAIN region} :
        /\ Cardinality({i \in DOMAIN region : region[i] < v}) <= k
        /\ k < Cardinality({i \in DOMAIN region : region[i] <= v})

\* np.percentile(recent_region, 85) times 20: linear interpolation between the
\* two order statistics around position 0.85 * (N - 1)
Percentile85x20(region) ==
    LET pos20 == 17 * (Cardinality(DOMAIN region) - 1)
        lo == pos20 \div 20
        frac == pos20 % 20
        a == KthValue(region, lo)
    IN  IF frac = 0 THEN 20 * a
        ELSE 20 * a + frac * (KthValue(region, lo + 1) - a)

\* np.where(recent_region > bright_threshold): the flat indices in row-major
\* order
RECURSIVE BrightFrom(_, _, _, _)
BrightFrom(region, n, thr20, i) ==
    IF i >= n THEN <<>>
    ELSE IF 20 * region[i] > thr20
    THEN <<i>> \o BrightFrom(region, n, thr20, i + 1)
    ELSE BrightFrom(region, n, thr20, i + 1)

\* bright_pixels as [y, x]: bright_pixels[0] and bright_pixels[1]
bright_pixels(gray_image) ==
    LET region == recent_region(gray_image)
        w == RegionWidth(gray_image)
        b == BrightFrom(region, Cardinality(DOMAIN region), Percentile85x20(region), 0)
    IN  [y |-> [i \in 1..Len(b) |-> b[i] \div w],
         x |-> [i \in 1..Len(b) |-> b[i] % w]]

\* np.polyfit(x, y, 1)[0], the least-squares slope, as the fraction num/den
\* with den > 0.  When every x is the same value c the system has rank 1:
\* for c # 0 lstsq returns the minimum-norm solution of the scaled system,
\* whose slope is mean(y) / (2c); for c = 0 polyfit's column scaling divides
\* 0 by 0 and lstsq is handed NaN, which it either rejects with LinAlgError
\* or answers with NaN, depending on the LAPACK build.
polyfit_slope(x, y, nan_raises) ==
    LET n == Len(x)
        den == n * Dot(x, x) - SumSeq(x) * SumSeq(x)
    IN  IF den > 0
        THEN [kind |-> "number", num |-> n * Dot(x, y) - SumSeq(x) * SumSeq(y), den |-> den]
        ELSE IF x[1] # 0
        THEN [kind |-> "number", num |-> SumSeq(y), den |-> 2 * x[1] * n]
        ELSE IF nan_raises
        THEN [kind |-> "raised", num |-> 0, den |-> 1]
        ELSE [kind |-> "nan", num |-> 0, den |-> 1]

\* the if/elif chain on the slope; every comparison with NaN is False
classify_slope(slope) ==
    IF slope.kind = "number" /\ slope.num < (-2) * slope.den
    THEN [direction |-> "STRONG_UPTREND", confidence |-> 80]
    ELSE IF slope.kind = "number" /\ 2 * slope.num < -slope.den
    THEN [direction |-> "UPTREND", confidence |-> 65]
    ELSE IF slope.kind = "number" /\ slope.num > 2 * slope.den
    THEN [direction |-> "STRONG_DOWNTREND", confidence |-> 80]
    ELSE IF slope.kind = "number" /\ 2 * slope.num > slope.den
    THEN [direction |-> "DOWNTREND", confidence |-> 65]
    ELSE [direction |-> "SIDEWAYS", confidence |-> 50]

analyze_trend_direction(gray_image, nan_raises) ==
    LET bright == bright_pixels(gray_image)
        y_coords == bright.y
        x_coords == bright.x
        slope == polyfit_slope(x_coords, y_coords, nan_raises)
    IN  IF Len(y_coords) > 10 /\ Len(y_coords) > 1
        THEN IF slope.kind = "raised"
             THEN [raised |-> TRUE, value |-> "LinAlgError"]
             ELSE [raised |-> FALSE, value |-> classify_slope(slope)]
        ELSE [raised |-> FALSE, value |-> [direction |-> "NEUTRAL", confidence |-> 30]]

(***************************************************************************)
(* detect_chart_patterns                                                   *)
(***************************************************************************)
\* the loop over the contours: one label per contour of more than 10 points
\* whose polygon has 3 or 4 vertices
RECURSIVE contour_labels(_)
contour_labels(contours) ==
    IF Len(contours) = 0 THEN <<>>
    ELSE (IF contours[1].points > 10
          THEN IF contours[1].approx = 3 THEN <<"Triangle Pattern">>
               ELSE IF contours[1].approx = 4 THEN <<"Rectangle/Channel Pattern">>
               ELSE <<>>
          ELSE <<>>)
         \o contour_labels(Tail(contours))

\* emitted_patterns appending the horizontal-line label after the contour
\* labels instead of before them
emitted_patterns_strong_last(edge_map) ==
    contour_labels(edge_map.contours)
    \o (IF edge_map.horizontal_strength > 100
        THEN <<"Strong Support/Resistance Levels">>
        ELSE <<>>)

\* every label the stage appends, before the cut
emitted_patterns(edge_map) ==
    (IF edge_map.horizontal_strength > 100
     THEN <<"Strong Support/Resistance Levels">>
     ELSE <<>>)
    \o contour_labels(edge_map.contours)

\* detect_chart_patterns returning every label, without the cut to 5
detect_chart_patterns_uncut(gray_image, edge_map) ==
    emitted_patterns(edge_map)


detect_chart_patterns(gray_image, edge_map) ==
    Take(emitted_patterns(edge_map), 5)

(***************************************************************************)
(* find_support_resistance_levels                                          *)
(***************************************************************************)
\* np.sum(gray_image, axis=1)
RECURSIVE RowSum(_, _, _)
RowSum(gray_image, r, c) ==
    IF c >= Width(gray_image) THEN 0
    ELSE gray_image[r][c] + RowSum(gray_image, r, c + 1)

horizontal_projection(gray_image) ==
    [r \in 0..(Height(gray_image) - 1) |-> RowSum(gray_image, r, 0)]

RECURSIVE MaxFrom(_, _)
MaxFrom(data, i) ==
    IF i + 1 >= Cardinality(DOMAIN data) THEN data[i]
    ELSE LET m == MaxFrom(data, i + 1) IN IF data[i] >= m THEN data[i] ELSE m

\* the end of the run of equal values that starts at i
RECURSIVE PlateauEnd(_, _)
PlateauEnd(data, i) ==
    IF i + 1 < Cardinality(DOMAIN data) /\ data[i + 1] = data[i]
    THEN PlateauEnd(data, i + 1)
    ELSE i

\* scipy.signal.find_peaks(data, height=h): a peak is a run of equal values
\* that is higher than the value before it and the value after it, reported
\* at the middle of the run (rounded down); kept when its value is at least
\* h.  The threshold is handed over as the fraction hnum/hden.
RECURSIVE scipy_peaks_from(_, _, _, _)
scipy_peaks_from(data, hnum, hden, i) ==
    IF i >= Cardinality(DOMAIN data) - 1 THEN <<>>
    ELSE LET e == PlateauEnd(data, i)
         IN  (IF /\ data[i - 1] < data[i]
                 /\ e + 1 < Cardinality(DOMAIN data)
                 /\ data[e + 1] < data[i]
                 /\ hden * data[i] >= hnum
              THEN <<(i + e) \div 2>>
              ELSE <<>>)
             \o scipy_peaks_from(data, hnum, hden, e + 1)

scipy_find_peaks(data, hnum, hden) == scipy_peaks_from(data, hnum, hden, 1)

\* the module-level fallback find_peaks(data, height): the indices, first and
\* last excluded, whose value is greater than both neighbours and, when a
\* height is given, at least that height (handed over as hnum/hden)
RECURSIVE fallback_peaks_from(_, _, _, _, _)
fallback_peaks_from(data, height_given, hnum, hden, i) ==
    IF i >= Cardinality(DOMAIN data) - 1 THEN <<>>
    ELSE (IF /\ data[i] > data[i - 1]
             /\ data[i] > data[i + 1]
             /\ (~height_given \/ hden * data[i] >= hnum)
          THEN <<i>>
          ELSE <<>>)
         \o fallback_peaks_from(data, height_given, hnum, hden, i + 1)

find_peaks(data, height_given, hnum, hden) ==
    fallback_peaks_from(data, height_given, hnum, hden, 1)

\* f"{peak/height*100:.1f}": the percentage rounded to one decimal, ties to even
FormatPercent(peak, height) ==
    LET q == (1000 * peak) \div height
        twice == 2 * ((1000 * peak) % height)
        tenths == IF twice > height \/ (twice = height /\ q % 2 = 1) THEN q + 1 ELSE q
    IN  ToString(tenths \div 10) \o "." \o ToString(tenths % 10)

level_entry(projection, height, peak) ==
    [level |-> "Level at " \o FormatPercent(peak, height) \o "% of chart height",
     strength |-> projection[peak]]

\* the rows the stage reports: peaks[:5]
level_peaks(projection) ==
    Take(scipy_find_peaks(projection, 3 * MaxFrom(projection, 0), 10), 5)

\* `from scipy.signal import find_peaks` runs inside the method, at every call:
\* without scipy it raises ImportError there
find_support_resistance_levels(gray_image, have_scipy) ==
    IF ~have_scipy
    THEN [raised |-> TRUE, value |-> "ImportError"]
    ELSE LET height == Height(gray_image)
             projection == horizontal_projection(gray_image)
             peaks == level_peaks(projection)
         IN  [raised |-> FALSE,
              value |-> [i \in 1..Len(peaks) |-> level_entry(projection, height, peaks[i])]]

(***************************************************************************)
(* generate_trading_signal                                                 *)
(***************************************************************************)
\* the trend rule: the local state [signal_score, reasoning] after it
score_trend(trend) ==
    IF In("UPTREND", trend)
    THEN IF In("STRONG", trend)
         THEN [signal_score |-> 40, reasoning |-> <<"Strong uptrend detected">>]
         ELSE [signal_score |-> 25, reasoning |-> <<"Uptrend detected">>]
    ELSE IF In("DOWNTREND", trend)
    THEN IF In("STRONG", trend)
         THEN [signal_score |-> -40, reasoning |-> <<"Strong downtrend detected">>]
         ELSE [signal_score |-> -25, reasoning |-> <<"Downtrend detected">>]
    ELSE [signal_score |-> 0, reasoning |-> <<>>]

\* the loop over the patterns
RECURSIVE score_patterns(_, _)
score_patterns(patterns, acc) ==
    IF Len(patterns) = 0 THEN acc
    ELSE score_patterns(Tail(patterns),
            IF In("Triangle", patterns[1])
            THEN [signal_score |-> acc.signal_score + 10,
                  reasoning |-> Append(acc.reasoning,
                                       "Triangle pattern suggests breakout potential")]
            ELSE IF In("Support", patterns[1])
            THEN [signal_score |-> acc.signal_score + 15,
                  reasoning |-> Append(acc.reasoning,
                                       "Strong support/resistance levels identified")]
            ELSE acc)

\* score_levels asking for more than 3 levels instead of at least 3
score_levels_more_than_3(levels, acc) ==
    IF Len(levels) > 3
    THEN [signal_score |-> acc.signal_score + 10,
          reasoning |-> Append(acc.reasoning,
                               "Multiple support/resistance levels provide structure")]
    ELSE acc

\* the level rule
score_levels(levels, acc) ==
    IF Len(levels) >= 3
    THEN [signal_score |-> acc.signal_score + 10,
          reasoning |-> Append(acc.reasoning,
                               "Multiple support/resistance levels provide structure")]
    ELSE acc

\* lines 170-204: the score and the rationale of a result record
accumulate_score(analysis_results) ==
    score_levels(analysis_results["support_resistance"],
        score_patterns(analysis_results["patterns_detected"],
            score_trend(analysis_results["trend_direction"])))

\* final_signal with BUY starting above 15 instead of at 15
final_signal_buy_above_15(score) ==
    IF score >= 30
    THEN [overall_signal |-> "STRONG BUY", confidence |-> Min(90, 60 + score)]
    ELSE IF score > 15
    THEN [overall_signal |-> "BUY", confidence |-> Min(75, 50 + score)]
    ELSE IF score <= -30
    THEN [overall_signal |-> "STRONG SELL", confidence |-> Min(90, 60 + Abs(score))]
    ELSE IF score <= -15
    THEN [overall_signal |-> "SELL", confidence |-> Min(75, 50 + Abs(score))]
    ELSE [overall_signal |-> "HOLD", confidence |-> 40 + Abs(score)]

\* final_signal with the STRONG SELL confidence left unclamped
final_signal_unclamped_sell(score) ==
    IF score >= 30
    THEN [overall_signal |-> "STRONG BUY", confidence |-> Min(90, 60 + score)]
    ELSE IF score >= 15
    THEN [overall_signal |-> "BUY", confidence |-> Min(75, 50 + score)]
    ELSE IF score <= -30
    THEN [overall_signal |-> "STRONG SELL", confidence |-> 60 + Abs(score)]
    ELSE IF score <= -15
    THEN [overall_signal |-> "SELL", confidence |-> Min(75, 50 + Abs(score))]
    ELSE [overall_signal |-> "HOLD", confidence |-> 40 + Abs(score)]

\* lines 206-221: the label and the confidence of a score
final_signal(score) ==
    IF score >= 30
    THEN [overall_signal |-> "STRONG BUY", confidence |-> Min(90, 60 + score)]
    ELSE IF score >= 15
    THEN [overall_signal |-> "BUY", confidence |-> Min(75, 50 + score)]
    ELSE IF score <= -30
    THEN [overall_signal |-> "STRONG SELL", confidence |-> Min(90, 60 + Abs(score))]
    ELSE IF score <= -15
    THEN [overall_signal |-> "SELL", confidence |-> Min(75, 50 + Abs(score))]
    ELSE [overall_signal |-> "HOLD", confidence |-> 40 + Abs(score)]

\* lines 223-230: the dict the scorer returns
signal_return(score, reasons) ==
    [overall_signal |-> final_signal(score).overall_signal,
     confidence |-> final_signal(score).confidence,
     recommendation |-> "Based on technical analysis: " \o Join(reasons, " | "),
     signal_score |-> score]

(***************************************************************************)
(* generate_technical_insights                                             *)
(***************************************************************************)
\* generate_technical_insights taking the trend sentence from the signal label
\* instead of the trend label
generate_technical_insights_by_signal(res) ==
    [trend_analysis |->
        IF In("BUY", res["overall_signal"])
        THEN "Bullish momentum detected. Consider long positions."
        ELSE IF In("SELL", res["overall_signal"])
        THEN "Bearish pressure evident. Consider short positions or exit longs."
        ELSE "Market consolidating. Wait for clear directional break.",
     pattern_analysis |->
        IF Len(res["patterns_detected"]) > 0
        THEN "Key patterns: " \o Join(res["patterns_detected"], ", ")
             \o ". Monitor for breakouts."
        ELSE "No clear patterns detected. Market may be in transition.",
     risk_management |->
        IF Len(res["support_resistance"]) > 0
        THEN "Watch " \o ToString(Len(res["support_resistance"]))
             \o " key levels. Use them for stop-loss placement."
        ELSE "Limited clear levels. Use tight stops and small position sizes."]

\* lines 232-259
generate_technical_insights(res) ==
    [trend_analysis |->
        IF In("UPTREND", res["trend_direction"])
        THEN "Bullish momentum detected. Consider long positions."
        ELSE IF In("DOWNTREND", res["trend_direction"])
        THEN "Bearish pressure evident. Consider short positions or exit longs."
        ELSE "Market consolidating. Wait for clear directional break.",
     pattern_analysis |->
        IF Len(res["patterns_detected"]) > 0
        THEN "Key patterns: " \o Join(res["patterns_detected"], ", ")
             \o ". Monitor for breakouts."
        ELSE "No clear patterns detected. Market may be in transition.",
     risk_management |->
        IF Len(res["support_resistance"]) > 0
        THEN "Watch " \o ToString(Len(res["support_resistance"]))
             \o " key levels. Use them for stop-loss placement."
        ELSE "Limited clear levels. Use tight stops and small position sizes."]

(***************************************************************************)
(* The files of the model.                                                 *)
(***************************************************************************)
Chart(mode, background, line, grid, cv) ==
    [decodable |-> TRUE, mode |-> mode, background |-> background,
     line |-> line, grid |-> grid, cv |-> cv]

Undecodable == [NoFile EXCEPT !.mode = "garbage"]

\* a price line three pixels thick over the four columns of the recent region
Line4(rise2) == [cols |-> {0, 1, 2, 3}, rise2 |-> rise2, thick |-> 3]

\* a vertical bar in the first column of the recent region
Bar0 == [cols |-> {0}, rise2 |-> 0, thick |-> 12]

Contour(points, approx) == [points |-> points, approx |-> approx]

\* long horizontal edges and seven contours, five of which give a label
RichCv ==
    [horizontal_strength |-> 101,
     contours |-> <<Contour(40, 3), Contour(44, 4), Contour(10, 3), Contour(25, 5),
                    Contour(12, 3), Contour(30, 4), Contour(11, 3)>>]

\* horizontal edges exactly at the threshold and one triangle
SmallCv == [horizontal_strength |-> 100, contours |-> <<Contour(11, 3)>>]

Files ==
    {Undecodable}
    \cup {Chart("RGB", 128, NoLine, 0, NoCv),
          Chart("RGB", 0, Line4(-5), 6, RichCv),
          Chart("RGB", 0, Line4(-2), 0, SmallCv),
          Chart("RGB", 0, Line4(0), 3, NoCv),
          Chart("RGB", 0, Line4(2), 6, NoCv),
          Chart("RGB", 0, Line4(5), 0, RichCv),
          Chart("RGB", 0, Bar0, 0, NoCv),
          Chart("RGB", 0, NoLine, 6, RichCv)}
    \cup {Chart("RGBA", 0, Line4(-5), 6, RichCv)}
    \cup {Chart("L", 128, NoLine, 0, NoCv),
          Chart("L", 0, Line4(-5), 6, RichCv),
          Chart("P", 0, Line4(2), 6, NoCv)}

(***************************************************************************)
(* ChartAnalyzer.__init__ and the initial state.                           *)
(***************************************************************************)
InitPatterns ==
    [trend_lines |-> <<>>, support_resistance |-> <<>>,
     candlestick_patterns |-> <<>>, indicators |-> <<>>]

\* the result dict kept from the previous call instead of built anew
stale_results(previous) ==
    IF DOMAIN previous = {}
    THEN [overall_signal |-> "HOLD", confidence |-> 0, trend_direction |-> "NEUTRAL",
          support_resistance |-> <<>>, patterns_detected |-> <<>>,
          technical_analysis |-> EmptyDict, recommendation |-> ""]
    ELSE previous

\* the dict perform_chart_analysis starts from; `previous` is whatever an
\* earlier call left behind, which the code does not look at
fresh_results(previous) ==
    [overall_signal |-> "HOLD", confidence |-> 0, trend_direction |-> "NEUTRAL",
     support_resistance |-> <<>>, patterns_detected |-> <<>>,
     technical_analysis |-> EmptyDict, recommendation |-> ""]

Environment ==
    /\ scipy_available \in BOOLEAN
    /\ lstsq_raises \in BOOLEAN
    /\ self_patterns = InitPatterns

NoCall ==
    /\ st_out = <<>>
    /\ uncaught = "none"
    /\ returned = <<>>
    /\ memo = <<>>

Init ==
    /\ Environment
    /\ NoCall
    /\ pc = "idle"
    /\ uploaded_file = NoFile
    /\ gray = NoGray
    /\ edges = NoCv
    /\ results = EmptyDict
    /\ signal_score = 0
    /\ reasoning = <<>>

env_vars == <<scipy_available, lstsq_raises, self_patterns>>

score_vars == <<signal_score, reasoning>>

page_vars == <<st_out, uncaught, returned, memo>>

\* the first finished call is remembered, to compare later calls with it
Remember(outcome) ==
    IF memo = <<>>
    THEN <<[file |-> uploaded_file, outcome |-> outcome]>>
    ELSE memo

(***************************************************************************)
(* chart_analysis_page and analyze_uploaded_chart                          *)
(***************************************************************************)
\* the user uploads a file: the page runs again and calls
\* analyzer.analyze_uploaded_chart(uploaded_file)
PageUpload ==
    /\ pc \in {"idle", "done", "crashed"}
    /\ \E f \in Files : uploaded_file' = f
    /\ st_out' = <<>>
    /\ uncaught' = "none"
    /\ returned' = <<>>
    /\ pc' = "open"
    /\ UNCHANGED <<env_vars, gray, edges, results, score_vars, memo>>

\* Image.open, st.image, np.array and the first lines of
\* perform_chart_analysis.  Image.open raises on a file that is no image;
\* neither analyze_uploaded_chart nor chart_analysis_page catches it.
OpenImage ==
    /\ pc = "open"
    /\ IF uploaded_file.decodable
       THEN /\ st_out' = Append(st_out, "image")
            /\ results' = fresh_results(results)
            /\ pc' = "gray"
            /\ UNCHANGED <<uncaught, memo>>
       ELSE /\ uncaught' = "UnidentifiedImageError"
            /\ memo' = Remember(<<>>)
            /\ pc' = "crashed"
            /\ UNCHANGED <<st_out, results>>
    /\ UNCHANGED <<env_vars, uploaded_file, gray, edges, score_vars, returned>>

(***************************************************************************)
(* perform_chart_analysis, stage by stage.  A stage that raises goes to    *)
(* the except clause.                                                      *)
(***************************************************************************)
StageGray ==
    /\ pc = "gray"
    /\ LET r == cvtColor(uploaded_file)
       IN  IF r.raised
           THEN pc' = "except" /\ UNCHANGED gray
           ELSE pc' = "edges" /\ gray' = r.value
    /\ UNCHANGED <<env_vars, uploaded_file, edges, results, score_vars, page_vars>>

StageEdges ==
    /\ pc = "edges"
    /\ edges' = Canny(uploaded_file)
    /\ pc' = "trend"
    /\ UNCHANGED <<env_vars, uploaded_file, gray, results, score_vars, page_vars>>

StageTrend ==
    /\ pc = "trend"
    /\ LET trend_analysis == analyze_trend_direction(gray, lstsq_raises)
       IN  IF trend_analysis.raised
           THEN pc' = "except" /\ UNCHANGED results
           ELSE /\ pc' = "patterns"
                /\ results' = [results EXCEPT
                                 !["trend_direction"] = trend_analysis.value.direction,
                                 !["confidence"] = trend_analysis.value.confidence]
    /\ UNCHANGED <<env_vars, uploaded_file, gray, edges, score_vars, page_vars>>

StagePatterns ==
    /\ pc = "patterns"
    /\ results' = [results EXCEPT
                     !["patterns_detected"] = detect_chart_patterns(gray, edges)]
    /\ pc' = "levels"
    /\ UNCHANGED <<env_vars, uploaded_file, gray, edges, score_vars, page_vars>>

StageLevels ==
    /\ pc = "levels"
    /\ LET support_resistance == find_support_resistance_levels(gray, scipy_available)
       IN  IF support_resistance.raised
           THEN pc' = "except" /\ UNCHANGED results
           ELSE /\ pc' = "score"
                /\ results' = [results EXCEPT
                                 !["support_resistance"] = support_resistance.value]
    /\ UNCHANGED <<env_vars, uploaded_file, gray, edges, score_vars, page_vars>>

\* generate_trading_signal, lines 170-204
StageScore ==
    /\ pc = "score"
    /\ signal_score' = accumulate_score(results).signal_score
    /\ reasoning' = accumulate_score(results).reasoning
    /\ pc' = "label"
    /\ UNCHANGED <<env_vars, uploaded_file, gray, edges, results, page_vars>>

\* generate_trading_signal, lines 206-230, and results.update(signal_analysis)
StageLabel ==
    /\ pc = "label"
    /\ results' = DictUpdate(results, signal_return(signal_score, reasoning))
    /\ pc' = "insights"
    /\ UNCHANGED <<env_vars, uploaded_file, gray, edges, score_vars, page_vars>>

StageInsights ==
    /\ pc = "insights"
    /\ results' = [results EXCEPT
                     !["technical_analysis"] = generate_technical_insights(results)]
    /\ pc' = "return"
    /\ UNCHANGED <<env_vars, uploaded_file, gray, edges, score_vars, page_vars>>

\* except Exception as e: st.error(...), the generic recommendation
Except ==
    /\ pc = "except"
    /\ st_out' = Append(st_out, "error")
    /\ results' = [results EXCEPT
                     !["recommendation"] =
                         "Unable to analyze chart. Please try a clearer image."]
    /\ pc' = "return"
    /\ UNCHANGED <<env_vars, uploaded_file, gray, edges, score_vars,
                   uncaught, returned, memo>>

\* return results, up to the page, which renders a result that is truthy
\* (a dict with keys is)
Return ==
    /\ pc = "return"
    /\ returned' = <<results>>
    /\ st_out' = IF DOMAIN results # {} THEN Append(st_out, "results") ELSE st_out
    /\ memo' = Remember(<<results>>)
    /\ pc' = "done"
    /\ UNCHANGED <<env_vars, uploaded_file, gray, edges, results, score_vars, uncaught>>

Next ==
    \/ PageUpload
    \/ OpenImage
    \/ StageGray
    \/ StageEdges
    \/ StageTrend
    \/ StagePatterns
    \/ StageLevels
    \/ StageScore
    \/ StageLabel
    \/ StageInsights
    \/ Except
    \/ Return

Spec == Init /\ [][Next]_vars

(***************************************************************************)
(* The trend stage on its own: analyze_trend_direction applied to the      *)
(* grayscale buffer of every drawing of a family of price lines.           *)
(***************************************************************************)
TrendLines ==
    {[cols |-> {0, 1, 2, 3}, rise2 |-> k, thick |-> t] : k \in -5..5, t \in 2..4}
    \cup {[cols |-> {0, 2}, rise2 |-> k, thick |-> 6] : k \in -5..5}
    \cup {[cols |-> {c}, rise2 |-> 0, thick |-> t] : c \in {0, 2}, t \in {10, 11, 12}}
    \cup {NoLine}

TrendFiles == {Chart("RGB", 0, l, g, NoCv) : l \in TrendLines, g \in {0, 3}}

InitTrend ==
    /\ scipy_available = TRUE
    /\ lstsq_raises \in BOOLEAN
    /\ self_patterns = InitPatterns
    /\ NoCall
    /\ pc = "trend"
    /\ uploaded_file \in TrendFiles
    /\ gray = cvtColor(uploaded_file).value
    /\ edges = Canny(uploaded_file)
    /\ results = fresh_results(EmptyDict)
    /\ signal_score = 0
    /\ reasoning = <<>>

SpecTrend == InitTrend /\ [][StageTrend]_vars

(***************************************************************************)
(* The scorer on its own: generate_trading_signal applied to every trend   *)
(* label, every pattern list over the vocabulary and level lists of every  *)
(* length, up to the bounds.                                               *)
(***************************************************************************)
TrendLabels ==
    {"STRONG_UPTREND", "UPTREND", "SIDEWAYS", "DOWNTREND", "STRONG_DOWNTREND", "NEUTRAL"}

PatternVocabulary ==
    {"Strong Support/Resistance Levels", "Triangle Pattern", "Rectangle/Channel Pattern"}

PatternLists ==
    UNION {[1..n -> PatternVocabulary] : n \in 0..MaxPatternLen}

LevelList(n) ==
    [i \in 1..n |->
        [level |-> "Level at " \o FormatPercent(i, 10) \o "% of chart height",
         strength |-> 1000 + i]]

InitSignal ==
    /\ scipy_available = TRUE
    /\ lstsq_raises = TRUE
    /\ self_patterns = InitPatterns
    /\ NoCall
    /\ pc = "score"
    /\ uploaded_file = NoFile
    /\ gray = NoGray
    /\ edges = NoCv
    /\ \E t \in TrendLabels, ps \in PatternLists, n \in 0..MaxLevelLen :
           results = [fresh_results(EmptyDict) EXCEPT
                        !["trend_direction"] = t,
                        !["patterns_detected"] = ps,
                        !["support_resistance"] = LevelList(n)]
    /\ signal_score = 0
    /\ reasoning = <<>>

SpecSignal == InitSignal /\ [][StageScore \/ StageLabel]_vars

(***************************************************************************)
(* The label mapping on its own: lines 206-230 applied to every score of   *)
(* -ScoreBound..ScoreBound.                                                *)
(***************************************************************************)
InitLabel ==
    /\ scipy_available = TRUE
    /\ lstsq_raises = TRUE
    /\ self_patterns = InitPatterns
    /\ NoCall
    /\ pc = "label"
    /\ uploaded_file = NoFile
    /\ gray = NoGray
    /\ edges = NoCv
    /\ results = fresh_results(EmptyDict)
    /\ signal_score \in (-ScoreBound)..ScoreBound
    /\ reasoning = <<>>

SpecLabel == InitLabel /\ [][StageLabel]_vars

(***************************************************************************)
(* The insight stage on its own: generate_technical_insights applied to    *)
(* result records of every trend label, pattern list and level list up to  *)
(* the bounds, each with several fillings of the fields the scorer writes. *)
(***************************************************************************)
\* fillings of overall_signal, confidence, recommendation and signal_score
SignalFillings ==
    {signal_return(s, r) : s \in {-40, 0, 30}, r \in {<<>>, <<"Uptrend detected">>}}

InitInsights ==
    /\ scipy_available = TRUE
    /\ lstsq_raises = TRUE
    /\ self_patterns = InitPatterns
    /\ NoCall
    /\ pc = "insights"
    /\ uploaded_file = NoFile
    /\ gray = NoGray
    /\ edges = NoCv
    /\ \E t \in TrendLabels, ps \in PatternLists, n \in 0..MaxLevelLen,
          filling \in SignalFillings :
           results = DictUpdate([fresh_results(EmptyDict) EXCEPT
                                   !["trend_direction"] = t,
                                   !["patterns_detected"] = ps,
                                   !["support_resistance"] = LevelList(n)],
                                filling)
    /\ signal_score = 0
    /\ reasoning = <<>>

SpecInsights == InitInsights /\ [][StageInsights]_vars

(***************************************************************************)
(* One call of analyze_uploaded_chart on its own, over a family of charts  *)
(* whose edge maps hold every list of triangle and rectangle contours up   *)
(* to MaxContours, with and without long horizontal edges.                 *)
(***************************************************************************)
ContourKinds == {Contour(12, 3), Contour(12, 4)}

ContourLists == UNION {[1..n -> ContourKinds] : n \in 0..MaxContours}

RunFiles ==
    {Chart("RGB", 0, l, g, [horizontal_strength |-> hs, contours |-> cs]) :
        l \in {Line4(-5), Line4(-2), Line4(5), NoLine}, g \in {0, 6},
        hs \in {100, 101}, cs \in ContourLists}

InitRun ==
    /\ Environment
    /\ NoCall
    /\ pc = "open"
    /\ uploaded_file \in RunFiles
    /\ gray = NoGray
    /\ edges = NoCv
    /\ results = EmptyDict
    /\ signal_score = 0
    /\ reasoning = <<>>

NextRun ==
    \/ OpenImage
    \/ StageGray
    \/ StageEdges
    \/ StageTrend
    \/ StagePatterns
    \/ StageLevels
    \/ StageScore
    \/ StageLabel
    \/ StageInsights
    \/ Except
    \/ Return

SpecRun == InitRun /\ [][NextRun]_vars

(***************************************************************************)
(* Properties.                                                             *)
(***************************************************************************)
UnableText == "Unable to analyze chart. Please try a clearer image."

ResultKeys ==
    {"overall_signal", "confidence", "trend_direction", "recommendation",
     "patterns_detected", "support_resistance", "technical_analysis"}

InsightKeys == {"trend_analysis", "pattern_analysis", "risk_management"}

ErrorShown == "error" \in Range(st_out)

\* C1: for a decodable image no exception leaves the analysis and the result
\* it returns is complete: the seven fields are set and technical_analysis
\* holds trend_analysis, pattern_analysis and risk_management, on every path,
\* the except path included.
C1_CompleteResult ==
    uploaded_file.decodable =>
        /\ uncaught = "none"
        /\ pc = "done" =>
              /\ Len(returned) = 1
              /\ ResultKeys \subseteq DOMAIN returned[1]
              /\ InsightKeys \subseteq DOMAIN returned[1]["technical_analysis"]

\* C2: whichever stage raised, the returned result has the generic
\* recommendation, overall_signal HOLD and confidence 0.
C2_ErrorDefaults ==
    (pc = "done" /\ ErrorShown) =>
        /\ returned[1]["recommendation"] = UnableText
        /\ returned[1]["overall_signal"] = "HOLD"
        /\ returned[1]["confidence"] = 0

\* C3: when the uploaded file cannot be decoded, the page shows the failure as
\* a message, no exception leaves the page, and no result is returned or
\* rendered.
C3_DecodeErrorSurfaced ==
    (pc \in {"done", "crashed"} /\ ~uploaded_file.decodable) =>
        /\ uncaught = "none"
        /\ ErrorShown
        /\ returned = <<>>
        /\ "results" \notin Range(st_out)

SignalLabels == <<"STRONG SELL", "SELL", "HOLD", "BUY", "STRONG BUY">>

\* the place of a label in the order STRONG SELL < SELL < HOLD < BUY < STRONG BUY
Rank(label) == CHOOSE i \in 1..5 : SignalLabels[i] = label

\* C4: the label given to a score is the one of the bucket the score lies in
\* (STRONG BUY from 30, BUY from 15 to 29, HOLD from -14 to 14, SELL from -29
\* to -15, STRONG SELL up to -30), and no smaller score has a more bullish
\* label.
C4_LabelMapping ==
    pc = "insights" =>
        LET s == results["signal_score"]
            label == results["overall_signal"]
        IN  /\ label \in Range(SignalLabels)
            /\ (label = "STRONG BUY") <=> (s >= 30)
            /\ (label = "BUY") <=> (15 <= s /\ s < 30)
            /\ (label = "HOLD") <=> (-15 < s /\ s < 15)
            /\ (label = "SELL") <=> (-30 < s /\ s <= -15)
            /\ (label = "STRONG SELL") <=> (s <= -30)
            /\ \A t \in (-ScoreBound)..ScoreBound :
                   t <= s => Rank(final_signal(t).overall_signal) <= Rank(label)

\* the score 15, the lowest BUY, has been mapped
C4_Witness ==
    /\ pc = "insights"
    /\ results["signal_score"] = 15
    /\ results["overall_signal"] = "BUY"

\* C5: the confidence of every score lies in 0..90, and in 0..75 for BUY and
\* SELL; the HOLD branch, which has no clamp, stays in that range too.
C5_ConfidenceRange ==
    pc = "insights" =>
        /\ results["confidence"] >= 0
        /\ results["confidence"] <= 90
        /\ results["overall_signal"] \in {"BUY", "SELL"} => results["confidence"] <= 75

\* the HOLD score with the highest confidence, 40 + 14, has been mapped
C5_Witness ==
    /\ pc = "insights"
    /\ results["overall_signal"] = "HOLD"
    /\ results["signal_score"] = -14
    /\ results["confidence"] = 54

\* the five lowest elements of a set of rows
Lowest5(rows) == {p \in rows : Cardinality({q \in rows : q < p}) < 5}

\* the element of a set of rows with i - 1 elements below it
Nth(rows, i) == CHOOSE p \in rows : Cardinality({q \in rows : q < p}) = i - 1

IsPrefix(s, t) == Len(s) <= Len(t) /\ \A i \in 1..Len(s) : s[i] = t[i]

\* C6: a returned result has at most 5 patterns and at most 5 levels; the
\* patterns are the first labels the detector emitted, in its order, and the
\* levels are those of the (at most five) topmost peak rows, from the top row
\* down.
C6_ListLimits ==
    pc = "done" =>
        LET patterns == returned[1]["patterns_detected"]
            levels == returned[1]["support_resistance"]
            projection == horizontal_projection(gray)
            rows == Lowest5(Range(scipy_find_peaks(projection,
                                                   3 * MaxFrom(projection, 0), 10)))
        IN  /\ Len(patterns) <= 5
            /\ Len(levels) <= 5
            /\ IsPrefix(patterns, emitted_patterns(Canny(uploaded_file)))
            /\ \/ Len(levels) = 0
               \/ /\ Len(levels) = Cardinality(rows)
                  /\ \A i \in 1..Len(levels) :
                         levels[i] = level_entry(projection, Height(gray), Nth(rows, i))

\* a result was returned for an image with more than 5 labels and more than 5
\* peaks, with both lists cut to 5
C6_Witness ==
    /\ pc = "done"
    /\ ~ErrorShown
    /\ Len(emitted_patterns(Canny(uploaded_file))) > 5
    /\ Len(scipy_find_peaks(horizontal_projection(gray),
                            3 * MaxFrom(horizontal_projection(gray), 0), 10)) > 5
    /\ Len(returned[1]["patterns_detected"]) = 5
    /\ Len(returned[1]["support_resistance"]) = 5

\* the number of entries of a list that are equal to a label
CountOf(list, label) == Cardinality({i \in 1..Len(list) : list[i] = label})

TrendWeight(trend) ==
    CASE trend = "STRONG_UPTREND" -> 40
      [] trend = "UPTREND" -> 25
      [] trend = "STRONG_DOWNTREND" -> -40
      [] trend = "DOWNTREND" -> -25
      [] OTHER -> 0

TrendFragment(trend) ==
    CASE trend = "STRONG_UPTREND" -> <<"Strong uptrend detected">>
      [] trend = "UPTREND" -> <<"Uptrend detected">>
      [] trend = "STRONG_DOWNTREND" -> <<"Strong downtrend detected">>
      [] trend = "DOWNTREND" -> <<"Downtrend detected">>
      [] OTHER -> <<>>

\* the fragments of the patterns that trigger a rule, in list order
PatternFragments(patterns) ==
    LET hits == {i \in 1..Len(patterns) :
                    patterns[i] \in {"Triangle Pattern", "Strong Support/Resistance Levels"}}
    IN  [k \in 1..Cardinality(hits) |->
            IF patterns[Nth(hits, k)] = "Triangle Pattern"
            THEN "Triangle pattern suggests breakout potential"
            ELSE "Strong support/resistance levels identified"]

\* C7: the scorer always returns its four fields; the score is the trend
\* weight plus 10 per Triangle pattern plus 15 per Support pattern plus 10 for
\* three or more levels, and the recommendation is the fixed prefix followed
\* by one fragment per triggered rule, trend first, then the patterns in list
\* order, then the levels, joined with " | ".
C7_ScoreFormula ==
    pc = "insights" =>
        LET trend == results["trend_direction"]
            patterns == results["patterns_detected"]
            levels == results["support_resistance"]
            fragments == TrendFragment(trend) \o PatternFragments(patterns)
                         \o (IF Len(levels) >= 3
                             THEN <<"Multiple support/resistance levels provide structure">>
                             ELSE <<>>)
        IN  /\ {"overall_signal", "confidence", "recommendation", "signal_score"}
                   \subseteq DOMAIN results
            /\ results["signal_score"] =
                   TrendWeight(trend)
                   + 10 * CountOf(patterns, "Triangle Pattern")
                   + 15 * CountOf(patterns, "Strong Support/Resistance Levels")
                   + (IF Len(levels) >= 3 THEN 10 ELSE 0)
            /\ results["recommendation"] =
                   "Based on technical analysis: " \o Join(fragments, " | ")

\* every kind of rule has triggered in one call: a downtrend, a triangle after
\* a support pattern, and exactly three levels
C7_Witness ==
    /\ pc = "insights"
    /\ results["trend_direction"] = "DOWNTREND"
    /\ results["patterns_detected"] =
           <<"Strong Support/Resistance Levels", "Rectangle/Channel Pattern", "Triangle Pattern">>
    /\ Len(results["support_resistance"]) = 3
    /\ results["signal_score"] = 10

\* C8: the trend stage never fails and classifies without gap or overlap:
\* NEUTRAL/30 exactly when there are fewer than 11 bright pixels, otherwise
\* the one bucket the fitted slope lies in: STRONG_UPTREND/80 below -2,
\* UPTREND/65 from -2 to below -0.5, SIDEWAYS/50 from -0.5 to 0.5, DOWNTREND/65
\* above 0.5 up to 2, STRONG_DOWNTREND/80 above 2.
C8_TrendClassification ==
    pc \in {"patterns", "except"} =>
        LET bright == bright_pixels(gray)
            slope == polyfit_slope(bright.x, bright.y, lstsq_raises)
            direction == results["trend_direction"]
            confidence == results["confidence"]
        IN  /\ pc = "patterns"
            /\ IF Len(bright.y) < 11
               THEN direction = "NEUTRAL" /\ confidence = 30
               ELSE /\ slope.kind = "number"
                    /\ (direction = "STRONG_UPTREND" /\ confidence = 80)
                           <=> (slope.num < (-2) * slope.den)
                    /\ (direction = "UPTREND" /\ confidence = 65)
                           <=> ((-2) * slope.den <= slope.num /\ 2 * slope.num < -slope.den)
                    /\ (direction = "SIDEWAYS" /\ confidence = 50)
                           <=> (-slope.den <= 2 * slope.num /\ 2 * slope.num <= slope.den)
                    /\ (direction = "DOWNTREND" /\ confidence = 65)
                           <=> (slope.den < 2 * slope.num /\ slope.num <= 2 * slope.den)
                    /\ (direction = "STRONG_DOWNTREND" /\ confidence = 80)
                           <=> (slope.num > 2 * slope.den)

\* C9: when the trend stage gives NEUTRAL/30 and the pattern and level stages
\* give empty lists, the returned result has trend NEUTRAL, no patterns, no
\* levels, score 0, signal HOLD and confidence 40.
C9_NoStructure ==
    (/\ pc = "done"
     /\ ~ErrorShown
     /\ analyze_trend_direction(gray, lstsq_raises).value
            = [direction |-> "NEUTRAL", confidence |-> 30]
     /\ detect_chart_patterns(gray, edges) = <<>>
     /\ find_support_resistance_levels(gray, scipy_available).value = <<>>)
    => /\ returned[1]["trend_direction"] = "NEUTRAL"
       /\ returned[1]["patterns_detected"] = <<>>
       /\ returned[1]["support_resistance"] = <<>>
       /\ returned[1]["signal_score"] = 0
       /\ returned[1]["overall_signal"] = "HOLD"
       /\ returned[1]["confidence"] = 40

\* the uniform gray image went through the whole pipeline
C9_Witness ==
    /\ pc = "done"
    /\ ~ErrorShown
    /\ uploaded_file = Chart("RGB", 128, NoLine, 0, NoCv)
    /\ Len(bright_pixels(gray).y) = 0
    /\ returned[1]["signal_score"] = 0

\* C10: a call's outcome depends on its image alone: a call on the image of
\* the first call of the instance ends as that call did, whatever ran in
\* between; and the patterns attribute stays as __init__ set it.
C10_Deterministic ==
    /\ self_patterns = InitPatterns
    /\ (pc \in {"done", "crashed"} /\ memo # <<>> /\ memo[1].file = uploaded_file)
           => memo[1].outcome = returned

\* the first call's image, one that fails before scoring, was analysed again
\* after a call on another image that was scored
C10_Witness ==
    /\ pc = "done"
    /\ memo # <<>>
    /\ memo[1].file = uploaded_file
    /\ uploaded_file.mode = "L"
    /\ signal_score # 0

\* the three sentences as the specification words them, from the trend label,
\* the pattern list and the level list
InsightsOf(trend, patterns, levels) ==
    [trend_analysis |->
        IF trend \in {"STRONG_UPTREND", "UPTREND"}
        THEN "Bullish momentum detected. Consider long positions."
        ELSE IF trend \in {"STRONG_DOWNTREND", "DOWNTREND"}
        THEN "Bearish pressure evident. Consider short positions or exit longs."
        ELSE "Market consolidating. Wait for clear directional break.",
     pattern_analysis |->
        IF patterns # <<>>
        THEN "Key patterns: " \o Join(patterns, ", ") \o ". Monitor for breakouts."
        ELSE "No clear patterns detected. Market may be in transition.",
     risk_management |->
        IF levels # <<>>
        THEN "Watch " \o ToString(Len(levels))
             \o " key levels. Use them for stop-loss placement."
        ELSE "Limited clear levels. Use tight stops and small position sizes."]

\* C11: the insights depend on trend_direction, patterns_detected and
\* support_resistance only: the insights of a record are the three sentences
\* the triple selects (bullish for the UPTREND labels, bearish for the
\* DOWNTREND labels, consolidating for SIDEWAYS and NEUTRAL; the patterns
\* listed iff there are any; the level count iff there are levels), and a
\* record with the same triple and any other overall_signal, confidence,
\* recommendation and signal_score gets the same insights.
C11_InsightsFromTriple ==
    pc = "return" =>
        /\ results["technical_analysis"]
               = InsightsOf(results["trend_direction"], results["patterns_detected"],
                            results["support_resistance"])
        /\ \A filling \in SignalFillings :
               generate_technical_insights(DictUpdate(results, filling))
                   = results["technical_analysis"]

\* a strong downtrend with two patterns and three levels, filled in as a
\* STRONG BUY, got the bearish sentence
C11_Witness ==
    /\ pc = "return"
    /\ results["trend_direction"] = "STRONG_DOWNTREND"
    /\ results["overall_signal"] = "STRONG BUY"
    /\ Len(results["patterns_detected"]) = 2
    /\ Len(results["support_resistance"]) = 3
    /\ results["technical_analysis"]["trend_analysis"]
           = "Bearish pressure evident. Consider short positions or exit longs."
    /\ results["technical_analysis"]["risk_management"]
           = "Watch 3 key levels. Use them for stop-loss placement."

\* the level list the stage would build from the manual peak finder:
\* find_peaks(horizontal_projection, height=max*0.3), the first five peaks
FallbackLevels(gray_image) ==
    LET projection == horizontal_projection(gray_image)
        peaks == Take(find_peaks(projection, TRUE, 3 * MaxFrom(projection, 0), 10), 5)
    IN  [i \in 1..Len(peaks) |-> level_entry(projection, Height(gray_image), peaks[i])]

\* C12: without scipy the level stage uses the manual find_peaks chosen at
\* startup: a call that gets as far as the level stage (the image decodes,
\* converts to grayscale and the trend stage does not raise) completes without
\* the error path, and its level list is the one the manual peak finder gives.
C12_FallbackPeakFinder ==
    (/\ pc = "done"
     /\ ~scipy_available
     /\ ~cvtColor(uploaded_file).raised
     /\ ~analyze_trend_direction(gray, lstsq_raises).raised)
        => /\ ~ErrorShown
           /\ returned[1]["support_resistance"] = FallbackLevels(gray)

\* C13: in the result of a completed run of the pipeline the score lies in
\* -40..105: "Strong Support/Resistance Levels" is in the pattern list at
\* most once and only as its first entry, so the patterns add at most
\* 15 + 4 * 10 = 55; only the trend takes anything off the score; and a
\* result labelled HOLD has a score inside -14..14, so its confidence
\* 40 + |score| stays below 100.
C13_ScoreRange ==
    (pc = "done" /\ ~ErrorShown) =>
        LET r == returned[1]
            ps == r["patterns_detected"]
            from_patterns == 10 * CountOf(ps, "Triangle Pattern")
                             + 15 * CountOf(ps, "Strong Support/Resistance Levels")
        IN  /\ r["signal_score"] \in -40..105
            /\ \A i \in 1..Len(ps) :
                   ps[i] = "Strong Support/Resistance Levels" => i = 1
            /\ from_patterns <= 55
            /\ r["signal_score"] - TrendWeight(r["trend_direction"])
                   \in {from_patterns, from_patterns + 10}
            /\ TrendWeight(r["trend_direction"]) >= -40
            /\ r["signal_score"] >= 60 => r["overall_signal"] # "HOLD"
            /\ r["overall_signal"] = "HOLD" =>
                   /\ r["signal_score"] \in -14..14
                   /\ r["confidence"] <= 54

\* a strong uptrend with long horizontal edges, four triangles in the cut list
\* and at least three levels reached the highest score
C13_Witness ==
    /\ pc = "done"
    /\ ~ErrorShown
    /\ returned[1]["signal_score"] = 105
    /\ returned[1]["trend_direction"] = "STRONG_UPTREND"
    /\ CountOf(returned[1]["patterns_detected"], "Triangle Pattern") = 4
    /\ returned[1]["patterns_detected"][1] = "Strong Support/Resistance Levels"
    /\ Len(returned[1]["support_resistance"]) >= 3

\* C14: in every result perform_chart_analysis returns, the signal is SELL or
\* STRONG SELL only if the trend is DOWNTREND or STRONG_DOWNTREND, and a
\* STRONG_UPTREND trend comes with STRONG BUY at confidence 90, the score
\* being at least 40, and at least 55 with the horizontal-line pattern.
C14_SignalFollowsTrend ==
    pc = "done" =>
        LET r == returned[1]
        IN  /\ r["overall_signal"] \in {"SELL", "STRONG SELL"}
                   => r["trend_direction"] \in {"DOWNTREND", "STRONG_DOWNTREND"}
            /\ r["trend_direction"] = "STRONG_UPTREND"
                   => /\ r["overall_signal"] = "STRONG BUY"
                      /\ r["confidence"] = 90
                      /\ "signal_score" \in DOMAIN r
                      /\ r["signal_score"] >= 40
                      /\ CountOf(r["patterns_detected"],
                                 "Strong Support/Resistance Levels") > 0
                             => r["signal_score"] >= 55

=============================================================================
